---- MODULE Spec2Model ----
(***************************************************************************)
(* Model of the slipo-python client library: the response wrappers of      *)
(* slipo/utils.py (json_response, file_response), the download endpoints   *)
(* that use file_response, and the input resolver                          *)
(* OperationClient._get_input.                                             *)
(*                                                                         *)
(* Python values are tagged records; a Python exception raised by an       *)
(* expression is an outcome record of kind "raise".                        *)
(***************************************************************************)
EXTENDS Integers, Sequences, FiniteSets, TLC

(***************************************************************************)
(* Bounds of the model.                                                    *)
(***************************************************************************)
\* longest 'errors' array a response envelope carries
MaxErrors == 2
\* number of distinct binary bodies a server answers a download with
NumBodies == 1
\* longest tuple handed to the input resolver
MaxTupleLen == 4
\* integers used as identifiers and revisions are 1..MaxId
MaxId == 2

(***************************************************************************)
(* Python / JSON values.                                                   *)
(***************************************************************************)
PyNone == [t |-> "none"]

PyBool(b) == [t |-> "bool", b |-> b]

PyInt(i) == [t |-> "int", i |-> i]

PyStr(s) == [t |-> "str", s |-> s]

PyList(items) == [t |-> "list", items |-> items]

PyTuple(items) == [t |-> "tuple", items |-> items]

\* a dict is a function from its keys to values
PyDict(d) == [t |-> "dict", d |-> d]

\* bytes of a response body that are not a JSON document
Bytes(n) == [t |-> "bytes", n |-> n]

\* bytes of a response body that encode the JSON document doc
JsonBytes(doc) == [t |-> "json", doc |-> doc]

\* an exception object used as the argument of SlipoException(ex)
ExcValue(type) == [t |-> "exception", type |-> type]

(***************************************************************************)
(* Outcomes of a call: a normal return or a raised exception.              *)
(***************************************************************************)
Return(v) == [kind |-> "return", exc |-> "", value |-> v]

Raise(type, msg) == [kind |-> "raise", exc |-> type, value |-> msg]

\* raise SlipoException(text)
SlipoException(text) == Raise("SlipoException", text)

\* an exception raised by the interpreter or a library; its argument is the
\* exception itself when it is wrapped later
PyRaise(type) == Raise(type, ExcValue(type))

(***************************************************************************)
(* Python expression semantics used by the wrappers.                       *)
(***************************************************************************)
\* bool(v)
Truthy(v) ==
    CASE v.t = "none" -> FALSE
      [] v.t = "bool" -> v.b
      [] v.t = "int" -> v.i # 0
      [] v.t = "str" -> v.s # ""
      [] v.t \in {"list", "tuple"} -> v.items # <<>>
      [] v.t = "dict" -> DOMAIN v.d # {}
      [] OTHER -> TRUE

\* obj[key] for a string key
Subscript(obj, key) ==
    CASE obj.t = "dict" ->
           IF key \in DOMAIN obj.d THEN Return(obj.d[key]) ELSE PyRaise("KeyError")
      [] OTHER -> PyRaise("TypeError")

\* obj[0]
Index0(obj) ==
    CASE obj.t \in {"list", "tuple"} ->
           IF Len(obj.items) > 0 THEN Return(obj.items[1]) ELSE PyRaise("IndexError")
      [] obj.t = "dict" -> PyRaise("KeyError")
      [] OTHER -> PyRaise("TypeError")

\* key in obj for a string key
Contains(key, obj) ==
    CASE obj.t = "dict" -> Return(PyBool(key \in DOMAIN obj.d))
      [] obj.t \in {"list", "tuple"} ->
           Return(PyBool(\E i \in 1..Len(obj.items) : obj.items[i] = PyStr(key)))
      [] OTHER -> PyRaise("TypeError")

\* r.json()
json(r) ==
    IF r.content.t = "json" THEN Return(r.content.doc) ELSE PyRaise("ValueError")


(***************************************************************************)
(* slipo/utils.py: json_response.                                          *)
(***************************************************************************)
OK == 200

\* json_error_text reading 'error' first and 'errors' only without it
json_error_text_error_first(response) ==
    LET has == Contains("error", response) IN
    IF has.kind = "raise" THEN has
    ELSE IF has.value.b
         THEN Subscript(response, "error")
         ELSE LET errors == Subscript(response, "errors") IN
              IF errors.kind = "raise" THEN errors
              ELSE LET first == Index0(errors.value) IN
                   IF first.kind = "raise" THEN first
                   ELSE Subscript(first.value, "description")

\* line 20: the text of the error an envelope carries
json_error_text(response) ==
    LET has == Contains("errors", response) IN
    IF has.kind = "raise" THEN has
    ELSE IF has.value.b
         THEN LET errors == Subscript(response, "errors") IN
              IF errors.kind = "raise" THEN errors
              ELSE LET first == Index0(errors.value) IN
                   IF first.kind = "raise" THEN first
                   ELSE Subscript(first.value, "description")
         ELSE Subscript(response, "error")

\* IsFailure with 'and' in place of 'or'
IsFailure_and(r, response) ==
    IF r.status_code = OK THEN Return(PyBool(FALSE))
    ELSE LET success == Subscript(response, "success") IN
         IF success.kind = "raise" THEN success
         ELSE Return(PyBool(~Truthy(success.value)))

\* line 19: r.status_code != OK or not response['success']
IsFailure(r, response) ==
    IF r.status_code # OK THEN Return(PyBool(TRUE))
    ELSE LET success == Subscript(response, "success") IN
         IF success.kind = "raise" THEN success
         ELSE Return(PyBool(~Truthy(success.value)))

\* result_of returning the envelope itself
result_of_envelope(response) ==
    LET has == Contains("result", response) IN
    IF has.kind = "raise" THEN has
    ELSE IF has.value.b THEN Return(response) ELSE Return(PyNone)

\* result_of without the test for the key
result_of_unchecked(response) == Subscript(response, "result")

\* lines 23-26: the value returned for a successful envelope
result_of(response) ==
    LET has == Contains("result", response) IN
    IF has.kind = "raise" THEN has
    ELSE IF has.value.b
         THEN Subscript(response, "result")
         ELSE Return(PyNone)

\* lines 15-26: the body of the try statement; func is the outcome of the
\* wrapped function
json_response_try(func) ==
    IF func.kind = "raise" THEN func
    ELSE LET r == func.value
             parsed == json(r)
         IN IF parsed.kind = "raise" THEN parsed
            ELSE LET response == parsed.value
                     failure == IsFailure(r, response)
                 IN IF failure.kind = "raise" THEN failure
                    ELSE IF failure.value.b
                         THEN LET text == json_error_text(response) IN
                              IF text.kind = "raise" THEN text
                              ELSE SlipoException(text.value)
                         ELSE result_of(response)

\* except_clauses without the clause for Exception
except_clauses_slipo_only(o) == o

\* lines 27-30 (and 55-58): except SlipoException: raise
\*                          except Exception as ex: raise SlipoException(ex)
except_clauses(o) ==
    IF o.kind = "raise" /\ o.exc # "SlipoException"
    THEN SlipoException(ExcValue(o.exc))
    ELSE o

json_response(func) == except_clauses(json_response_try(func))

(***************************************************************************)
(* The local file system.                                                  *)
(***************************************************************************)
\* paths a caller names as the destination of a download
Targets == {"out.bin", "outdir", "missing/out.bin", "readonly.bin"}

\* paths whose parent directory does not exist
NoParent == {"missing/out.bin"}

\* paths the process has no permission to open for writing
NoPermission == {"readonly.bin"}

Absent == [kind |-> "absent", content |-> Bytes(0)]

Directory == [kind |-> "dir", content |-> Bytes(0)]

File(content) == [kind |-> "file", content |-> content]

\* the content of a file that has just been created or truncated
Empty == Bytes(0)

\* the content of the files that exist before any download
OldContent == Bytes(-1)

\* os.path.isfile(path)
isfile(files, path) == files[path].kind = "file"

\* os.path.isdir(path)
isdir(files, path) == files[path].kind = "dir"

\* open(path, 'wb'): the outcome and the file system afterwards
open_wb(files, path) ==
    CASE files[path].kind = "dir" ->
           [out |-> PyRaise("IsADirectoryError"), fs |-> files]
      [] path \in NoParent ->
           [out |-> PyRaise("FileNotFoundError"), fs |-> files]
      [] path \in NoPermission ->
           [out |-> PyRaise("PermissionError"), fs |-> files]
      [] OTHER ->
           [out |-> Return(PyNone), fs |-> [files EXCEPT ![path] = File(Empty)]]

\* f.write(content) on a file just opened with 'wb'; disk_full is the
\* environment's choice of failing the write
write(files, path, content, disk_full) ==
    IF disk_full
    THEN [out |-> PyRaise("OSError"), fs |-> files]
    ELSE [out |-> Return(PyNone), fs |-> [files EXCEPT ![path] = File(content)]]

(***************************************************************************)
(* slipo/utils.py: file_response.                                          *)
(***************************************************************************)
\* spec.args.index(target), 0-based
index(spec_args, target) ==
    (CHOOSE i \in 1..Len(spec_args) :
        /\ spec_args[i] = target
        /\ \A j \in 1..(i - 1) : spec_args[j] # target) - 1

\* args[index] of the positional arguments
positional(args, i) ==
    IF i < Len(args) THEN Return(args[i + 1]) ELSE PyRaise("IndexError")

\* file_error_text reading 'error' first and 'errors' only without it
file_error_text_error_first(response) ==
    LET has == Contains("error", response) IN
    IF has.kind = "raise" THEN has
    ELSE IF has.value.b
         THEN Subscript(response, "error")
         ELSE LET errors == Subscript(response, "errors") IN
              IF errors.kind = "raise" THEN errors
              ELSE LET first == Index0(errors.value) IN
                   IF first.kind = "raise" THEN first
                   ELSE Subscript(first.value, "description")

\* line 50: the text of the error a failing download carries
file_error_text(response) ==
    LET has == Contains("errors", response) IN
    IF has.kind = "raise" THEN has
    ELSE IF has.value.b
         THEN LET errors == Subscript(response, "errors") IN
              IF errors.kind = "raise" THEN errors
              ELSE LET first == Index0(errors.value) IN
                   IF first.kind = "raise" THEN first
                   ELSE Subscript(first.value, "description")
         ELSE Subscript(response, "error")

\* lines 53-54: with open(args[index], 'wb') as f: f.write(r.content)
write_body(files, args, i, r, disk_full) ==
    LET path == positional(args, i) IN
    IF path.kind = "raise" THEN [out |-> path, fs |-> files]
    ELSE IF path.value.t # "str" THEN [out |-> PyRaise("TypeError"), fs |-> files]
    ELSE LET opened == open_wb(files, path.value.s) IN
         IF opened.out.kind = "raise" THEN opened
         ELSE write(opened.fs, path.value.s, r.content, disk_full)

\* file_response_try opening the destination before it looks at the status
file_response_try_open_first(files, func, args, i, disk_full) ==
    IF func.kind = "raise" THEN [out |-> func, fs |-> files]
    ELSE LET r == func.value
             written == write_body(files, args, i, r, disk_full)
         IN IF written.out.kind = "raise" THEN written
            ELSE IF r.status_code # OK
            THEN LET parsed == json(r) IN
                 IF parsed.kind = "raise" THEN [out |-> parsed, fs |-> written.fs]
                 ELSE LET text == file_error_text(parsed.value) IN
                      IF text.kind = "raise" THEN [out |-> text, fs |-> written.fs]
                      ELSE [out |-> SlipoException(text.value), fs |-> written.fs]
            ELSE written

\* file_response_try reading the envelope of every response: a body that
\* is an envelope with success false fails also when the status is OK
file_response_try_envelope(files, func, args, i, disk_full) ==
    IF func.kind = "raise" THEN [out |-> func, fs |-> files]
    ELSE LET r == func.value
             parsed == json(r)
             failed == /\ parsed.kind = "return"
                       /\ parsed.value.t = "dict"
                       /\ "success" \in DOMAIN parsed.value.d
                       /\ parsed.value.d.success = PyBool(FALSE)
         IN IF r.status_code # OK \/ failed
            THEN IF parsed.kind = "raise" THEN [out |-> parsed, fs |-> files]
                 ELSE LET text == file_error_text(parsed.value) IN
                      IF text.kind = "raise" THEN [out |-> text, fs |-> files]
                      ELSE [out |-> SlipoException(text.value), fs |-> files]
            ELSE write_body(files, args, i, r, disk_full)

\* lines 45-54: the body of the try statement; func is the outcome of the
\* wrapped function, args its positional arguments
file_response_try(files, func, args, i, disk_full) ==
    IF func.kind = "raise" THEN [out |-> func, fs |-> files]
    ELSE LET r == func.value IN
         IF r.status_code # OK
         THEN LET parsed == json(r) IN
              IF parsed.kind = "raise" THEN [out |-> parsed, fs |-> files]
              ELSE LET text == file_error_text(parsed.value) IN
                   IF text.kind = "raise" THEN [out |-> text, fs |-> files]
                   ELSE [out |-> SlipoException(text.value), fs |-> files]
         ELSE write_body(files, args, i, r, disk_full)

\* file_response without the except clauses
file_response_no_except(target, spec_args, files, func, args, disk_full) ==
    file_response_try(files, func, args, index(spec_args, target), disk_full)

\* file_response refusing to write over a destination that exists
file_response_keep_existing(target, spec_args, files, func, args, disk_full) ==
    LET i == index(spec_args, target)
        path == positional(args, i)
        done == IF /\ path.kind = "return"
                   /\ path.value.t = "str"
                   /\ isfile(files, path.value.s)
                THEN [out |-> SlipoException(PyStr("File already exists")),
                      fs |-> files]
                ELSE file_response_try(files, func, args, i, disk_full)
    IN [out |-> except_clauses(done.out), fs |-> done.fs]

\* lines 40-58: the wrapper of file_response(target)(func)
file_response(target, spec_args, files, func, args, disk_full) ==
    LET i == index(spec_args, target)
        done == file_response_try(files, func, args, i, disk_full)
    IN [out |-> except_clauses(done.out), fs |-> done.fs]

(***************************************************************************)
(* What the server and the network can answer.                             *)
(***************************************************************************)
Response(status, content) == [status_code |-> status, content |-> content]

\* the marker of a field an envelope does not carry
Missing == [t |-> "missing"]

\* the envelope with the given fields, leaving out those that are Missing
Envelope(success, result, error, errors) ==
    LET all == [success |-> success, result |-> result,
                error |-> error, errors |-> errors]
    IN PyDict([k \in {f \in DOMAIN all : all[f] # Missing} |-> all[k]])

\* the i-th entry of a well-formed 'errors' array
ErrorEntry(i) == PyDict([description |-> PyStr("description " \o ToString(i))])

\* the values an 'errors' field takes: arrays of 0..MaxErrors well-formed
\* entries, an array whose entry has no description, and null
ErrorsValues ==
    {PyList([i \in 1..n |-> ErrorEntry(i)]) : n \in 0..MaxErrors}
        \cup {PyList(<<PyDict([code |-> PyStr("E1")])>>), PyNone}

SuccessValues == {PyBool(TRUE), PyBool(FALSE)}

\* null, a string and an object as the value of 'result'
ResultValues == {PyNone, PyStr("text"), PyDict([id |-> PyInt(1)])}

ErrorValues == {PyStr("error text")}

Envelopes ==
    {Envelope(s, r, e, es) :
        s \in SuccessValues \cup {Missing}, r \in ResultValues \cup {Missing},
        e \in ErrorValues \cup {Missing}, es \in ErrorsValues \cup {Missing}}

\* the envelopes a failing download is answered with
ErrorEnvelopes ==
    {Envelope(PyBool(FALSE), Missing, e, es) :
        e \in ErrorValues \cup {Missing}, es \in ErrorsValues \cup {Missing}}
        \cup {Envelope(PyBool(TRUE), PyStr("text"), PyStr("error text"), Missing)}

\* JSON documents that are not an object
NonObjects == {PyList(<<>>), PyNone}

\* binary bodies
Bodies == {Bytes(n) : n \in 1..NumBodies}

StatusCodes == {OK, 500}

\* outcomes of requests.get/post for an endpoint that answers with JSON
JsonAnswers ==
    {PyRaise("ConnectionError")}
        \cup {Return(Response(st, JsonBytes(doc))) :
                st \in StatusCodes, doc \in Envelopes \cup NonObjects}
        \cup {Return(Response(st, Bytes(1))) : st \in StatusCodes}

\* outcomes of requests.get for a download
FileAnswers ==
    {PyRaise("ConnectionError")}
        \cup {Return(Response(OK, b)) :
                b \in Bodies \cup
                      {JsonBytes(Envelope(PyBool(FALSE), Missing, PyStr("error text"), Missing))}}
        \cup {Return(Response(404, JsonBytes(doc))) : doc \in ErrorEnvelopes \cup NonObjects}
        \cup {Return(Response(404, Bytes(1)))}

(***************************************************************************)
(* slipo/operation.py: the input resolver.                                 *)
(***************************************************************************)
FILESYSTEM == "FILESYSTEM"

CATALOG == "CATALOG"

OUTPUT == "OUTPUT"

\* the name Python prints for type(value)
TypeName(value) ==
    CASE value.t = "none" -> "<class 'NoneType'>"
      [] OTHER -> "<class '" \o value.t \o "'>"

\* _get_input_str tagging the string as a catalog resource
_get_input_str_catalog(value) ==
    Return(PyDict([type |-> PyStr(CATALOG), path |-> value]))

\* lines 271-275: the descriptor of a string
_get_input_str(value) ==
    Return(PyDict([type |-> PyStr(FILESYSTEM), path |-> value]))

\* _get_input_tuple reading the members of the tuple in the reverse order
_get_input_tuple_reversed(value) ==
    IF Len(value.items) = 2
    THEN Return(PyDict([type |-> PyStr(CATALOG),
                        id |-> value.items[2],
                        version |-> value.items[1]]))
    ELSE IF Len(value.items) = 3
    THEN Return(PyDict([type |-> PyStr(OUTPUT),
                        processId |-> value.items[3],
                        processVersion |-> value.items[2],
                        fileId |-> value.items[1]]))
    ELSE SlipoException(PyStr(
           "Expected a tuple with 2 or 3 members. Instead received "
               \o ToString(Len(value.items))))

\* _get_input_tuple taking every tuple of three or more members as an output
_get_input_tuple_at_least(value) ==
    IF Len(value.items) = 2
    THEN Return(PyDict([type |-> PyStr(CATALOG),
                        id |-> value.items[1],
                        version |-> value.items[2]]))
    ELSE IF Len(value.items) >= 3
    THEN Return(PyDict([type |-> PyStr(OUTPUT),
                        processId |-> value.items[1],
                        processVersion |-> value.items[2],
                        fileId |-> value.items[3]]))
    ELSE SlipoException(PyStr(
           "Expected a tuple with 2 or 3 members. Instead received "
               \o ToString(Len(value.items))))

\* lines 277-292: the descriptor of a tuple
_get_input_tuple(value) ==
    IF Len(value.items) = 2
    THEN Return(PyDict([type |-> PyStr(CATALOG),
                        id |-> value.items[1],
                        version |-> value.items[2]]))
    ELSE IF Len(value.items) = 3
    THEN Return(PyDict([type |-> PyStr(OUTPUT),
                        processId |-> value.items[1],
                        processVersion |-> value.items[2],
                        fileId |-> value.items[3]]))
    ELSE SlipoException(PyStr(
           "Expected a tuple with 2 or 3 members. Instead received "
               \o ToString(Len(value.items))))

\* OperationClient._get_input(value)
_get_input(value) ==
    IF value.t = "str" THEN _get_input_str(value)
    ELSE IF value.t = "tuple" THEN _get_input_tuple(value)
    ELSE SlipoException(PyStr("Unsupported input type " \o TypeName(value)))

(***************************************************************************)
(* slipo/client.py: construction of the client and of its four             *)
(* sub-clients.  An object is the map of the attributes assigned so far.   *)
(***************************************************************************)
BASE_URL == "https://app.dev.slipo.eu/"

\* s.startswith(prefix)
startswith(s, prefix) ==
    Len(s) >= Len(prefix) /\ SubSeq(s, 1, Len(prefix)) = prefix

\* s.endswith(suffix)
endswith(s, suffix) ==
    Len(s) >= Len(suffix) /\ SubSeq(s, Len(s) - Len(suffix) + 1, Len(s)) = suffix

\* value == False
EqualsFalse(value) ==
    CASE value.t = "bool" -> ~value.b
      [] value.t = "int" -> value.i = 0
      [] OTHER -> FALSE


\* Client._check_base_url(base_url, requires_ssl) emitting no warning
_check_base_url_silent(base_url, requires_ssl) ==
    LET url == IF ~Truthy(base_url) THEN BASE_URL ELSE base_url.s
        insecure == ~startswith(url, "https")
    IN IF insecure /\ ~EqualsFalse(requires_ssl)
       THEN [out |-> SlipoException(PyStr("HTTPS should be used for API requests")),
             warned |-> <<>>]
       ELSE [out |-> Return(PyStr(IF endswith(url, "/") THEN url ELSE url \o "/")),
             warned |-> <<>>]

\* Client._check_base_url(base_url, requires_ssl) appending '/' to every URL
_check_base_url_always_slash(base_url, requires_ssl) ==
    LET url == IF ~Truthy(base_url) THEN BASE_URL ELSE base_url.s
        insecure == ~startswith(url, "https")
    IN IF insecure /\ ~EqualsFalse(requires_ssl)
       THEN [out |-> SlipoException(PyStr("HTTPS should be used for API requests")),
             warned |-> <<>>]
       ELSE [out |-> Return(PyStr(url \o "/")),
             warned |-> IF insecure
                        THEN <<[category |-> "UserWarning",
                                message |-> "You are using an API key over an "
                                            \o "unsecured connection!!!"]>>
                        ELSE <<>>]

\* lines 47-62: Client._check_base_url(base_url, requires_ssl); the outcome
\* and the warnings emitted
_check_base_url(base_url, requires_ssl) ==
    LET url == IF ~Truthy(base_url) THEN BASE_URL ELSE base_url.s
        insecure == ~startswith(url, "https")
    IN IF insecure /\ ~EqualsFalse(requires_ssl)
       THEN [out |-> SlipoException(PyStr("HTTPS should be used for API requests")),
             warned |-> <<>>]
       ELSE [out |-> Return(PyStr(IF endswith(url, "/") THEN url ELSE url \o "/")),
             warned |-> IF insecure
                        THEN <<[category |-> "UserWarning",
                                message |-> "You are using an API key over an "
                                            \o "unsecured connection!!!"]>>
                        ELSE <<>>]

\* FileSystemClient.__init__(base_url, api_key)
FileSystemClient_init(base_url, api_key) ==
    [base_url |-> base_url, api_key |-> api_key,
     headers |-> ("X-API-Key" :> api_key)]

\* CatalogClient.__init__(base_url, api_key) leaving the API key out of the
\* headers of the downloads
CatalogClient_init_no_key(base_url, api_key) ==
    [base_url |-> base_url, api_key |-> api_key,
     auth_headers |-> ("Accept" :> PyStr("*/*")),
     content_headers |->
         ("X-API-Key" :> api_key) @@ ("Content-type" :> PyStr("application/json"))]

\* CatalogClient.__init__(base_url, api_key)
CatalogClient_init(base_url, api_key) ==
    [base_url |-> base_url, api_key |-> api_key,
     auth_headers |-> ("X-API-Key" :> api_key),
     content_headers |->
         ("X-API-Key" :> api_key) @@ ("Content-type" :> PyStr("application/json"))]

\* ProcessClient.__init__(base_url, api_key)
ProcessClient_init(base_url, api_key) ==
    [base_url |-> base_url, api_key |-> api_key,
     auth_headers |-> ("X-API-Key" :> api_key),
     content_headers |->
         ("X-API-Key" :> api_key) @@ ("Content-type" :> PyStr("application/json"))]

\* OperationClient.__init__(base_url, api_key)
OperationClient_init(base_url, api_key) ==
    [base_url |-> base_url, api_key |-> api_key,
     headers |->
         ("X-API-Key" :> api_key) @@ ("Content-type" :> PyStr("application/json"))]

\* an object before any attribute is assigned
NewObject == [attribute \in {} |-> PyNone]

\* the names of the attributes Client.__init__ assigns
ClientAttributes ==
    {"base_url", "file_client", "catalog_client", "process_client", "operation_client"}

\* Client.__init__(api_key, base_url, requires_ssl) constructing the file
\* system client before the base URL is checked
Client_init_clients_first(api_key, base_url, requires_ssl) ==
    LET checked == _check_base_url(base_url, requires_ssl) IN
    IF checked.out.kind = "raise"
    THEN [out |-> checked.out,
          self |-> [file_client |-> FileSystemClient_init(base_url, api_key)],
          warned |-> checked.warned]
    ELSE LET url == checked.out.value IN
         [out |-> Return(PyNone),
          self |-> [base_url |-> url,
                    file_client |-> FileSystemClient_init(url, api_key),
                    catalog_client |-> CatalogClient_init(url, api_key),
                    process_client |-> ProcessClient_init(url, api_key),
                    operation_client |-> OperationClient_init(url, api_key)],
          warned |-> checked.warned]

\* lines 39-45: Client.__init__(api_key, base_url, requires_ssl); the
\* outcome, the object and the warnings emitted
Client_init(api_key, base_url, requires_ssl) ==
    LET checked == _check_base_url(base_url, requires_ssl) IN
    IF checked.out.kind = "raise"
    THEN [out |-> checked.out, self |-> NewObject, warned |-> checked.warned]
    ELSE LET url == checked.out.value IN
         [out |-> Return(PyNone),
          self |-> [base_url |-> url,
                    file_client |-> FileSystemClient_init(url, api_key),
                    catalog_client |-> CatalogClient_init(url, api_key),
                    process_client |-> ProcessClient_init(url, api_key),
                    operation_client |-> OperationClient_init(url, api_key)],
          warned |-> checked.warned]

(***************************************************************************)
(* urllib.parse.urljoin, as the endpoints call it: on URLs without query,  *)
(* parameters or fragment.  Strings are sequences of characters.           *)
(***************************************************************************)
\* s[i], counted from 1
Char(s, i) == SubSeq(s, i, i)

\* s[i:], counted from 1
From(s, i) == SubSeq(s, i, Len(s))

\* s[:n]
Prefix(s, n) == SubSeq(s, 1, IF n > Len(s) THEN Len(s) ELSE n)

\* s.find(c) + 1 for a character c: 0 when c does not occur in s
find(s, c) ==
    IF \E i \in 1..Len(s) : Char(s, i) = c
    THEN CHOOSE i \in 1..Len(s) :
             Char(s, i) = c /\ \A j \in 1..(i - 1) : Char(s, j) # c
    ELSE 0

LowerCase == "abcdefghijklmnopqrstuvwxyz"

UpperCase == "ABCDEFGHIJKLMNOPQRSTUVWXYZ"

Letters == {Char(LowerCase, i) : i \in 1..Len(LowerCase)}
               \cup {Char(UpperCase, i) : i \in 1..Len(UpperCase)}

\* urllib.parse.scheme_chars
scheme_chars ==
    Letters \cup {"0", "1", "2", "3", "4", "5", "6", "7", "8", "9", "+", "-", "."}

RECURSIVE lower(_)
\* s.lower()
lower(s) ==
    IF s = "" THEN ""
    ELSE LET c == Char(s, 1)
             i == find(UpperCase, c)
         IN (IF i = 0 THEN c ELSE Char(LowerCase, i)) \o lower(Tail(s))

RECURSIVE split(_)
\* s.split('/')
split(s) ==
    LET i == find(s, "/") IN
    IF i = 0 THEN <<s>> ELSE <<SubSeq(s, 1, i - 1)>> \o split(From(s, i + 1))

RECURSIVE join(_)
\* '/'.join(parts)
join(parts) ==
    IF parts = <<>> THEN ""
    ELSE IF Len(parts) = 1 THEN parts[1]
    ELSE parts[1] \o "/" \o join(Tail(parts))

\* urllib.parse.uses_relative and uses_netloc
uses_relative ==
    {"", "ftp", "http", "gopher", "nntp", "imap", "wais", "file", "https",
     "shttp", "mms", "prospero", "rtsp", "rtsps", "rtspu", "sftp", "svn",
     "svn+ssh", "ws", "wss"}

uses_netloc ==
    {"", "ftp", "http", "gopher", "nntp", "telnet", "imap", "wais", "file",
     "mms", "https", "shttp", "snews", "prospero", "rtsp", "rtsps", "rtspu",
     "rsync", "svn", "svn+ssh", "sftp", "nfs", "git", "git+ssh", "ws", "wss"}

\* the place of the ':' that ends the scheme of url, 0 when url has none
scheme_end(url) ==
    LET colon == find(url, ":") IN
    IF /\ colon > 1
       /\ Char(url, 1) \in Letters
       /\ \A i \in 1..(colon - 1) : Char(url, i) \in scheme_chars
    THEN colon
    ELSE 0

\* the network location and the path of what follows the scheme
netloc_path(rest) ==
    LET after == From(rest, 3)
        slash == find(after, "/")
    IN IF Prefix(rest, 2) # "//" THEN [netloc |-> "", path |-> rest]
       ELSE IF slash = 0 THEN [netloc |-> after, path |-> ""]
       ELSE [netloc |-> SubSeq(after, 1, slash - 1), path |-> From(after, slash)]

\* the parts of url, whose scheme ends at colon
parsed(url, scheme, colon, rest) ==
    [scheme |-> IF colon = 0 THEN scheme ELSE lower(SubSeq(url, 1, colon - 1)),
     netloc |-> rest.netloc,
     path |-> rest.path]

\* the parts of url, whose scheme ends at colon
parts_from(url, scheme, colon) ==
    parsed(url, scheme, colon,
           netloc_path(IF colon = 0 THEN url ELSE From(url, colon + 1)))

\* urlparse(url, scheme): the scheme, the network location and the path
urlparse(url, scheme) == parts_from(url, scheme, scheme_end(url))

\* urlunparse((scheme, netloc, path, '', '', ''))
urlunparse(scheme, netloc, path) ==
    LET located ==
            IF netloc # "" \/ (scheme # "" /\ scheme \in uses_netloc
                                  /\ Prefix(path, 2) # "//")
            THEN "//" \o netloc
                     \o (IF path # "" /\ Char(path, 1) # "/" THEN "/" ELSE "")
                     \o path
            ELSE path
    IN IF scheme # "" THEN scheme \o ":" \o located ELSE located

RECURSIVE resolve(_, _)
\* the loop over the segments: '..' pops, '.' is skipped
resolve(segments, resolved_path) ==
    IF segments = <<>> THEN resolved_path
    ELSE LET seg == Head(segments) IN
         resolve(Tail(segments),
                 IF seg = ".."
                 THEN SubSeq(resolved_path, 1, Len(resolved_path) - 1)
                 ELSE IF seg = "." THEN resolved_path
                 ELSE Append(resolved_path, seg))

\* segments[1:-1] = filter(None, segments[1:-1])
filter_inner(segments) ==
    IF Len(segments) < 2 THEN segments
    ELSE <<segments[1]>>
             \o SelectSeq(SubSeq(segments, 2, Len(segments) - 1),
                          LAMBDA seg : seg # "")
             \o <<segments[Len(segments)]>>

\* base_parts: the segments of the base path without the last one, unless
\* that one is empty
drop_last(parts) ==
    IF parts[Len(parts)] # "" THEN SubSeq(parts, 1, Len(parts) - 1) ELSE parts

\* the segments of the joined path
segments_of(bpath, path) ==
    IF Prefix(path, 1) = "/" THEN split(path)
    ELSE filter_inner(drop_last(split(bpath)) \o split(path))

\* resolved_path
resolved(segments) ==
    resolve(segments, <<>>)
        \o (IF segments[Len(segments)] \in {".", ".."} THEN <<"">> ELSE <<>>)

\* '/'.join(resolved_path) or '/'
or_root(path) == IF path = "" THEN "/" ELSE path

\* urljoin(base, url) for the parsed base b and the parsed url u
join_parsed(b, u, url) ==
    IF u.scheme # b.scheme \/ u.scheme \notin uses_relative THEN url
    ELSE IF u.scheme \in uses_netloc /\ u.netloc # ""
    THEN urlunparse(u.scheme, u.netloc, u.path)
    ELSE IF u.path = ""
    THEN urlunparse(u.scheme,
                    IF u.scheme \in uses_netloc THEN b.netloc ELSE u.netloc,
                    b.path)
    ELSE urlunparse(u.scheme,
                    IF u.scheme \in uses_netloc THEN b.netloc ELSE u.netloc,
                    or_root(join(resolved(segments_of(b.path, u.path)))))

\* urljoin(base, url) for the parsed base b
join_base(b, url) == join_parsed(b, urlparse(url, b.scheme), url)

\* urllib.parse.urljoin(base, url)
urllib_parse_urljoin(base, url) ==
    IF base = "" THEN url
    ELSE IF url = "" THEN base
    ELSE join_base(urlparse(base, ""), url)

(***************************************************************************)
(* The clients a caller can construct, and the URL of every endpoint under *)
(* the base URL of each of them.                                           *)
(***************************************************************************)
ApiKeys == {PyStr("key-1"), PyStr("key-2")}

\* the values a caller passes as base_url
BaseUrls ==
    {PyNone, PyStr("")}
        \cup {PyStr(s) : s \in
                {"https://app.dev.slipo.eu/", "https://host", "https://host/",
                 "https://host/prefix", "https://host/prefix/",
                 "http://127.0.0.1", "http://example.com", "http://example.com/",
                 "httpsx://host", "https-host", "https", "host", "ftp://host/",
                 "HTTPS://host", "/", "h"}}

\* the values a caller passes as requires_ssl; True is the default
RequiresSsl == {PyBool(TRUE), PyBool(FALSE), PyNone, PyInt(0)}

\* the identifiers and versions of resources, processes and files
Ids == 1..MaxId

\* the clients whose construction returns
Clients ==
    {Client_init(api_key, base_url, requires_ssl).self :
        api_key \in ApiKeys, base_url \in BaseUrls, requires_ssl \in RequiresSsl}
        \ {NewObject}

(***************************************************************************)
(* The endpoints of the file system, catalog and process clients.  Each    *)
(* returns the outcome of the function its decorator wraps and the HTTP    *)
(* requests it issued; answer is what requests.get or requests.post does   *)
(* when it is called.                                                      *)
(***************************************************************************)
API_VERSION == "v1"

\* slipo/filesystem.py: the templates, formatted
filesystem_API_BROWSE == "api/" \o API_VERSION \o "/file-system/"

filesystem_API_DOWNLOAD == "api/" \o API_VERSION \o "/file-system/"

filesystem_API_UPLOAD == "api/" \o API_VERSION \o "/file-system/upload/"

\* slipo/catalog.py: the templates, formatted
catalog_API_QUERY == "api/" \o API_VERSION \o "/resource/"

catalog_API_DOWNLOAD(id, version) ==
    "/api/" \o API_VERSION \o "/resource/" \o ToString(id) \o "/"
        \o ToString(version) \o "/"

\* slipo/process.py: the templates, formatted
process_API_QUERY == "/api/" \o API_VERSION \o "/process/"

process_API_STATUS(id, version) ==
    "/api/" \o API_VERSION \o "/process/" \o ToString(id) \o "/"
        \o ToString(version) \o "/"

process_API_DOWNLOAD(id, version, fileId) ==
    "/api/" \o API_VERSION \o "/process/" \o ToString(id) \o "/"
        \o ToString(version) \o "/file/" \o ToString(fileId)

process_API_START(id, version) ==
    "/api/" \o API_VERSION \o "/process/" \o ToString(id) \o "/"
        \o ToString(version) \o "/start"

process_API_STOP(id, version) ==
    "/api/" \o API_VERSION \o "/process/" \o ToString(id) \o "/"
        \o ToString(version) \o "/stop"

\* slipo/operation.py: the templates, formatted
operation_API_PROFILES == "/api/" \o API_VERSION \o "/toolkit/profiles"

operation_API_TRANSFORM == "/api/" \o API_VERSION \o "/toolkit/transform"

operation_API_INTERLINK == "/api/" \o API_VERSION \o "/toolkit/interlink"

operation_API_FUSE == "/api/" \o API_VERSION \o "/toolkit/fuse"

operation_API_ENRICH == "/api/" \o API_VERSION \o "/toolkit/enrich"

operation_API_EXPORT == "/api/" \o API_VERSION \o "/toolkit/export"

\* the endpoints the methods format from the templates
Endpoints ==
    {filesystem_API_BROWSE, filesystem_API_DOWNLOAD, filesystem_API_UPLOAD,
     catalog_API_QUERY, process_API_QUERY, operation_API_PROFILES,
     operation_API_TRANSFORM, operation_API_INTERLINK, operation_API_FUSE,
     operation_API_ENRICH, operation_API_EXPORT}
        \cup {catalog_API_DOWNLOAD(i, v) : i \in Ids, v \in Ids}
        \cup {process_API_STATUS(i, v) : i \in Ids, v \in Ids}
        \cup {process_API_START(i, v) : i \in Ids, v \in Ids}
        \cup {process_API_STOP(i, v) : i \in Ids, v \in Ids}
        \cup {process_API_DOWNLOAD(i, v, f) : i \in Ids, v \in Ids, f \in Ids}

\* urljoin(base_url, endpoint) for every client and every endpoint, joined
\* once
Joined ==
    [base \in {c.base_url.s : c \in Clients} |->
        [endpoint \in Endpoints |-> urllib_parse_urljoin(base, endpoint)]]

\* urljoin(self.base_url, endpoint)
urljoin(base, endpoint) == Joined[base][endpoint]

\* a call of requests.get or requests.post; an argument that is not given
\* is PyNone
Request(method, url, headers, params, data, files) ==
    [method |-> method, url |-> url, headers |-> headers, params |-> params,
     data |-> data, files |-> files]

RECURSIVE jsonable(_)
\* the JSON value json.dumps encodes: tuples become arrays
jsonable(value) ==
    CASE value.t \in {"tuple", "list"} ->
           PyList([i \in DOMAIN value.items |-> jsonable(value.items[i])])
      [] value.t = "dict" ->
           PyDict([k \in DOMAIN value.d |-> jsonable(value.d[k])])
      [] OTHER -> value

\* json.dumps(value): the text that encodes the JSON document
dumps(value) == [t |-> "json_text", doc |-> jsonable(value)]

\* s.rfind('/') + 1
rfind(s) ==
    IF \E i \in 1..Len(s) : Char(s, i) = "/"
    THEN CHOOSE i \in 1..Len(s) :
             Char(s, i) = "/" /\ \A j \in (i + 1)..Len(s) : Char(s, j) # "/"
    ELSE 0

RECURSIVE rstrip(_)
\* s.rstrip('/')
rstrip(s) ==
    IF s # "" /\ Char(s, Len(s)) = "/" THEN rstrip(SubSeq(s, 1, Len(s) - 1))
    ELSE s

\* os.path.split(p): <<head, tail>>
os_path_split(p) ==
    LET i == rfind(p)
        head == SubSeq(p, 1, i)
    IN <<IF rstrip(head) # "" THEN rstrip(head) ELSE head, From(p, i + 1)>>

\* os.path.basename(p)
os_path_basename(p) == From(p, rfind(p) + 1)

\* open(path, 'rb'): the file object or the error
open_rb(files, path) ==
    CASE files[path].kind = "dir" -> PyRaise("IsADirectoryError")
      [] files[path].kind = "absent" -> PyRaise("FileNotFoundError")
      [] OTHER -> Return(files[path].content)

\* FileSystemClient.browse(self)
FileSystemClient_browse(self, answer) ==
    [out |-> answer,
     sent |-> <<Request("GET", urljoin(self.base_url.s, filesystem_API_BROWSE),
                        self.headers, PyNone, PyNone, PyNone)>>]

\* FileSystemClient.download(self, source, target, overwrite) without the
\* test of an existing file
FileSystemClient_download_no_isfile(self, files, source, target, overwrite, answer) ==
    IF isdir(files, target)
    THEN [out |-> SlipoException(PyStr("Path " \o target \o " is a directory")),
          sent |-> <<>>]
    ELSE [out |-> answer,
          sent |-> <<Request("GET", urljoin(self.base_url.s, filesystem_API_DOWNLOAD),
                             self.headers, PyDict([path |-> source]),
                             PyNone, PyNone)>>]

\* FileSystemClient.download(self, source, target, overwrite) with the test
\* of a directory made only when overwrite is false
FileSystemClient_download_lax(self, files, source, target, overwrite, answer) ==
    IF isfile(files, target) /\ ~overwrite
    THEN [out |-> SlipoException(PyStr("File " \o target \o " already exists")),
          sent |-> <<>>]
    ELSE IF isdir(files, target) /\ ~overwrite
    THEN [out |-> SlipoException(PyStr("Path " \o target \o " is a directory")),
          sent |-> <<>>]
    ELSE [out |-> answer,
          sent |-> <<Request("GET", urljoin(self.base_url.s, filesystem_API_DOWNLOAD),
                             self.headers, PyDict([path |-> source]),
                             PyNone, PyNone)>>]

\* FileSystemClient.download(self, source, target, overwrite)
FileSystemClient_download(self, files, source, target, overwrite, answer) ==
    IF isfile(files, target) /\ ~overwrite
    THEN [out |-> SlipoException(PyStr("File " \o target \o " already exists")),
          sent |-> <<>>]
    ELSE IF isdir(files, target)
    THEN [out |-> SlipoException(PyStr("Path " \o target \o " is a directory")),
          sent |-> <<>>]
    ELSE [out |-> answer,
          sent |-> <<Request("GET", urljoin(self.base_url.s, filesystem_API_DOWNLOAD),
                             self.headers, PyDict([path |-> source]),
                             PyNone, PyNone)>>]

\* FileSystemClient.upload(self, source, target, overwrite)
FileSystemClient_upload(self, files, source, target, overwrite, answer) ==
    LET parts == os_path_split(target)
        data == PyDict([path |-> PyStr(parts[1]), filename |-> PyStr(parts[2]),
                        overwrite |-> PyBool(overwrite)])
        opened == open_rb(files, source)
    IN IF opened.kind = "raise" THEN [out |-> opened, sent |-> <<>>]
       ELSE [out |-> answer,
             sent |-> <<Request("POST", urljoin(self.base_url.s, filesystem_API_UPLOAD),
                                self.headers, PyNone, PyNone,
                                [data |-> dumps(data),
                                 file |-> <<os_path_basename(source),
                                            opened.value>>])>>]

\* the body of both query endpoints
query_body(term, pageIndex, pageSize) ==
    PyDict([pagingOptions |-> PyDict([pageIndex |-> pageIndex,
                                      pageSize |-> pageSize]),
            query |-> PyDict([name |-> term])])

\* CatalogClient.query(self, term, pageIndex, pageSize)
CatalogClient_query(self, term, pageIndex, pageSize, answer) ==
    [out |-> answer,
     sent |-> <<Request("POST", urljoin(self.base_url.s, catalog_API_QUERY),
                        self.content_headers, PyNone,
                        dumps(query_body(term, pageIndex, pageSize)), PyNone)>>]

\* CatalogClient.download(self, resource_id, resource_version, target)
CatalogClient_download(self, resource_id, resource_version, answer) ==
    [out |-> answer,
     sent |-> <<Request("GET",
                        urljoin(self.base_url.s,
                                catalog_API_DOWNLOAD(resource_id, resource_version)),
                        self.auth_headers, PyNone, PyNone, PyNone)>>]

\* ProcessClient.query(self, term, pageIndex, pageSize)
ProcessClient_query(self, term, pageIndex, pageSize, answer) ==
    [out |-> answer,
     sent |-> <<Request("POST", urljoin(self.base_url.s, process_API_QUERY),
                        self.content_headers, PyNone,
                        dumps(query_body(term, pageIndex, pageSize)), PyNone)>>]

\* ProcessClient.start(self, process_id, process_version), issuing the
\* request again when the first one raised
ProcessClient_start_retry(self, process_id, process_version, answer) ==
    LET request == Request("POST",
                           urljoin(self.base_url.s,
                                   process_API_START(process_id, process_version)),
                           self.content_headers, PyNone, PyNone, PyNone)
    IN [out |-> answer,
        sent |-> IF answer.kind = "raise" THEN <<request, request>>
                 ELSE <<request>>]

\* ProcessClient.start(self, process_id, process_version)
ProcessClient_start(self, process_id, process_version, answer) ==
    [out |-> answer,
     sent |-> <<Request("POST",
                        urljoin(self.base_url.s,
                                process_API_START(process_id, process_version)),
                        self.content_headers, PyNone, PyNone, PyNone)>>]

\* ProcessClient.stop(self, process_id, process_version)
ProcessClient_stop(self, process_id, process_version, answer) ==
    [out |-> answer,
     sent |-> <<Request("POST",
                        urljoin(self.base_url.s,
                                process_API_STOP(process_id, process_version)),
                        self.content_headers, PyNone, PyNone, PyNone)>>]

\* ProcessClient.status(self, process_id, process_version)
ProcessClient_status(self, process_id, process_version, answer) ==
    [out |-> answer,
     sent |-> <<Request("GET",
                        urljoin(self.base_url.s,
                                process_API_STATUS(process_id, process_version)),
                        self.content_headers, PyNone, PyNone, PyNone)>>]

\* ProcessClient.download(self, process_id, process_version, file_id, target)
ProcessClient_download(self, process_id, process_version, file_id, answer) ==
    [out |-> answer,
     sent |-> <<Request("GET",
                        urljoin(self.base_url.s,
                                process_API_DOWNLOAD(process_id, process_version,
                                                     file_id)),
                        self.auth_headers, PyNone, PyNone, PyNone)>>]

(***************************************************************************)
(* slipo/operation.py: the endpoints of the operation client.  Keyword     *)
(* arguments are a map from names to values.                               *)
(***************************************************************************)
\* a member of EnumDataFormat
EnumDataFormat(value) == [t |-> "enum", value |-> PyStr(value)]

\* no keyword argument
NoKwargs == [name \in {} |-> PyNone]

\* the keyword parameters of _transform and their defaults
transform_defaults ==
    [attrCategory |-> PyNone, attrGeometry |-> PyNone, attrKey |-> PyNone,
     attrName |-> PyNone, attrX |-> PyNone, attrY |-> PyNone,
     classificationSpec |-> PyNone, defaultLang |-> PyStr("en"),
     delimiter |-> PyNone, encoding |-> PyStr("UTF-8"), featureSource |-> PyNone,
     mappingSpec |-> PyNone, profile |-> PyNone, quote |-> PyNone,
     sourceCRS |-> PyStr("EPSG:4326"), targetCRS |-> PyStr("EPSG:4326")]

\* the keyword parameters of _export and their defaults
export_defaults ==
    [defaultLang |-> PyStr("en"), delimiter |-> PyStr("|"),
     encoding |-> PyStr("UTF-8"), quote |-> PyStr("\\\""),
     sourceCRS |-> PyStr("EPSG:4326"), sparqlFile |-> PyNone,
     targetCRS |-> PyStr("EPSG:4326")]

\* the parameters bound from the keyword arguments and the defaults
bound(defaults, kwargs) ==
    [name \in DOMAIN defaults |->
        IF name \in DOMAIN kwargs THEN kwargs[name] ELSE defaults[name]]

\* None if format is None else format.value
format_value(format) == IF format = PyNone THEN PyNone ELSE format.value

\* requests.post(url, headers=self.headers, data=json.dumps(data))
post(self, endpoint, data, answer) ==
    [out |-> answer,
     sent |-> <<Request("POST", urljoin(self.base_url.s, endpoint), self.headers,
                        PyNone, dumps(data), PyNone)>>]

\* OperationClient.profiles(self)
OperationClient_profiles(self, answer) ==
    [out |-> answer,
     sent |-> <<Request("GET", urljoin(self.base_url.s, operation_API_PROFILES),
                        self.headers, PyNone, PyNone, PyNone)>>]

\* variant: a keyword inputFormat replaces the format of the method
OperationClient__transform_kwargs_win(self, path, inputFormat, kwargs, answer) ==
    IF ~(DOMAIN kwargs \subseteq DOMAIN transform_defaults \cup {"inputFormat"})
    THEN [out |-> PyRaise("TypeError"), sent |-> <<>>]
    ELSE post(self, operation_API_TRANSFORM,
              PyDict([path |-> path,
                      configuration |->
                          PyDict(bound(transform_defaults, kwargs)
                                     @@ [inputFormat |->
                                            IF "inputFormat" \in DOMAIN kwargs
                                            THEN kwargs.inputFormat
                                            ELSE format_value(inputFormat)])]),
              answer)

\* OperationClient._transform(self, path, inputFormat, **kwargs): a keyword
\* that is no parameter, or that names a parameter given by position, is a
\* TypeError of the call
OperationClient__transform(self, path, inputFormat, kwargs, answer) ==
    IF ~(DOMAIN kwargs \subseteq DOMAIN transform_defaults)
    THEN [out |-> PyRaise("TypeError"), sent |-> <<>>]
    ELSE post(self, operation_API_TRANSFORM,
              PyDict([path |-> path,
                      configuration |->
                          PyDict(bound(transform_defaults, kwargs)
                                     @@ [inputFormat |-> format_value(inputFormat)])]),
              answer)

\* OperationClient.transform_csv(self, path, **kwargs)
OperationClient_transform_csv(self, path, kwargs, answer) ==
    OperationClient__transform(self, path, EnumDataFormat("CSV"), kwargs, answer)

\* OperationClient.transform_shapefile(self, path, **kwargs)
OperationClient_transform_shapefile(self, path, kwargs, answer) ==
    OperationClient__transform(self, path, EnumDataFormat("SHAPEFILE"), kwargs, answer)

\* the first of the outcomes that raises, or Return(PyNone) when none does
first_raise(outcomes) ==
    IF \E i \in 1..Len(outcomes) : outcomes[i].kind = "raise"
    THEN outcomes[CHOOSE i \in 1..Len(outcomes) :
                      /\ outcomes[i].kind = "raise"
                      /\ \A j \in 1..(i - 1) : outcomes[j].kind # "raise"]
    ELSE Return(PyNone)

\* OperationClient.interlink(self, profile, left, right)
OperationClient_interlink(self, profile, left, right, answer) ==
    LET l == _get_input(left)
        r == _get_input(right)
        raised == first_raise(<<l, r>>)
    IN IF raised.kind = "raise" THEN [out |-> raised, sent |-> <<>>]
       ELSE post(self, operation_API_INTERLINK,
                 PyDict([profile |-> profile, left |-> l.value, right |-> r.value]),
                 answer)

\* variant: links goes into the body as given, unresolved
OperationClient_fuse_links_raw(self, profile, left, right, links, answer) ==
    LET l == _get_input(left)
        r == _get_input(right)
        raised == first_raise(<<l, r>>)
    IN IF raised.kind = "raise" THEN [out |-> raised, sent |-> <<>>]
       ELSE post(self, operation_API_FUSE,
                 PyDict([profile |-> profile, left |-> l.value, right |-> r.value,
                         links |-> links]),
                 answer)

\* OperationClient.fuse(self, profile, left, right, links)
OperationClient_fuse(self, profile, left, right, links, answer) ==
    LET l == _get_input(left)
        r == _get_input(right)
        k == _get_input(links)
        raised == first_raise(<<l, r, k>>)
    IN IF raised.kind = "raise" THEN [out |-> raised, sent |-> <<>>]
       ELSE post(self, operation_API_FUSE,
                 PyDict([profile |-> profile, left |-> l.value, right |-> r.value,
                         links |-> k.value]),
                 answer)

\* OperationClient.enrich(self, profile, source)
OperationClient_enrich(self, profile, source, answer) ==
    LET input == _get_input(source) IN
    IF input.kind = "raise" THEN [out |-> input, sent |-> <<>>]
    ELSE post(self, operation_API_ENRICH,
              PyDict([profile |-> profile, input |-> input.value]), answer)

\* OperationClient._export(self, profile, source, outputFormat, **kwargs)
OperationClient__export(self, profile, source, outputFormat, kwargs, answer) ==
    LET input == _get_input(source) IN
    IF ~(DOMAIN kwargs \subseteq DOMAIN export_defaults)
    THEN [out |-> PyRaise("TypeError"), sent |-> <<>>]
    ELSE IF input.kind = "raise" THEN [out |-> input, sent |-> <<>>]
    ELSE post(self, operation_API_EXPORT,
              PyDict([input |-> input.value,
                      configuration |->
                          PyDict(bound(export_defaults, kwargs)
                                     @@ [outputFormat |-> format_value(outputFormat),
                                         profile |-> profile])]),
              answer)

\* OperationClient.export_csv(self, profile, source, **kwargs)
OperationClient_export_csv(self, profile, source, kwargs, answer) ==
    OperationClient__export(self, profile, source, EnumDataFormat("CSV"), kwargs, answer)

\* OperationClient.export_shapefile(self, profile, source, **kwargs)
OperationClient_export_shapefile(self, profile, source, kwargs, answer) ==
    OperationClient__export(self, profile, source, EnumDataFormat("SHAPEFILE"),
                            kwargs, answer)

\* the argument names inspect.getfullargspec reports for the three downloads
FileSystemClient_download_args == <<"self", "source", "target", "overwrite">>

CatalogClient_download_args == <<"self", "resource_id", "resource_version", "target">>

ProcessClient_download_args ==
    <<"self", "process_id", "process_version", "file_id", "target">>

(***************************************************************************)
(* Inputs of the calls.                                                    *)
(***************************************************************************)
\* the object a method is called on
Self == [t |-> "object"]

Source == PyStr("data/pois.csv")

Strings == {"", "data/pois.csv", "/abs/pois.csv"}

\* tuples of integers of every length up to MaxTupleLen
IntTuples ==
    {PyTuple([i \in 1..n |-> PyInt(f[i])]) :
        f \in [1..MaxTupleLen -> Ids], n \in 0..MaxTupleLen}

\* values that are neither a string nor a tuple of integers
OtherValues ==
    {PyNone, PyInt(1), PyList(<<PyInt(1), PyInt(2)>>),
     PyDict([id |-> PyInt(1), version |-> PyInt(2)]),
     PyTuple(<<PyStr("a"), PyInt(1)>>),
     PyTuple(<<PyNone, PyInt(1), PyInt(2)>>),
     PyTuple(<<PyTuple(<<PyInt(1), PyInt(2)>>), PyInt(1)>>)}

InputValues == {PyStr(s) : s \in Strings} \cup IntTuples \cup OtherValues

(***************************************************************************)
(* State.                                                                  *)
(***************************************************************************)
VARIABLES
    fs,         \* the local file system: the state of every path of Targets
    call,       \* the last invocation: its operation, arguments and answer
    outcome,    \* what the last invocation returned or raised
    requests,   \* the number of HTTP requests the last invocation issued
    client,     \* the Client object: the attributes its construction assigned
    sent,       \* the HTTP requests the last invocation issued, in order
    warned      \* the warnings the last invocation emitted

vars == <<fs, call, outcome, requests, client, sent, warned>>

\* the file system in which out.bin is in state out
FileSystem(out) ==
    [p \in Targets |->
        CASE p = "out.bin" -> out
          [] p = "readonly.bin" -> File(OldContent)
          [] p = "outdir" -> Directory
          [] OTHER -> Absent]

\* Client(api_key): the client of the default base URL
DefaultClient == Client_init(PyStr("key-1"), PyNone, PyBool(TRUE)).self

\* out.bin exists or not when the program starts; the client is constructed
Init ==
    /\ fs \in {FileSystem(Absent), FileSystem(File(OldContent))}
    /\ call = [op |-> "none"]
    /\ outcome = Return(PyNone)
    /\ requests = 0
    /\ client = DefaultClient
    /\ sent = <<>>
    /\ warned = <<>>

\* the construction of the client returned
Constructed == DOMAIN client = ClientAttributes

\* a method call that assigns the default base URL to self.base_url
Issued_reassigning(func) ==
    /\ requests' = Len(func.sent)
    /\ sent' = func.sent
    /\ warned' = <<>>
    /\ client' = [client EXCEPT !.base_url = PyStr(BASE_URL)]

\* what every method call leaves and records: the client is not assigned,
\* no warning is emitted
Issued(func) ==
    /\ requests' = Len(func.sent)
    /\ sent' = func.sent
    /\ warned' = <<>>
    /\ UNCHANGED client

\* no request was issued, so nothing was answered
NoAnswer == [kind |-> "none", exc |-> "", value |-> PyNone]

\* the answer as the call records it
Answered(func, answer) == IF func.sent = <<>> THEN NoAnswer ELSE answer

\* the write fails only where a write is attempted
MayFail(disk_full, answer) ==
    disk_full => (answer.kind = "return" /\ answer.value.status_code = OK)

\* FileSystemClient.browse(), wrapped by json_response
browse ==
    \E answer \in JsonAnswers :
        LET func == FileSystemClient_browse(client.file_client, answer) IN
        /\ Constructed
        /\ call' = [op |-> "browse", answer |-> answer]
        /\ outcome' = json_response(func.out)
        /\ Issued(func)
        /\ UNCHANGED fs

\* FileSystemClient.download(source, target, overwrite), wrapped by
\* file_response('target'); the target is passed by position or by keyword
download ==
    \E target \in Targets, overwrite \in BOOLEAN, by_keyword \in BOOLEAN,
       answer \in FileAnswers, disk_full \in BOOLEAN :
        LET func == FileSystemClient_download(client.file_client, fs, Source,
                                             target, overwrite, answer)
            args == IF by_keyword THEN <<Self, Source>>
                    ELSE <<Self, Source, PyStr(target)>>
            done == file_response("target", FileSystemClient_download_args,
                                  fs, func.out, args, disk_full)
        IN /\ Constructed
           /\ MayFail(disk_full, answer)
           /\ call' = [op |-> "download", target |-> target,
                       overwrite |-> overwrite, by_keyword |-> by_keyword,
                       answer |-> Answered(func, answer), disk_full |-> disk_full]
           /\ outcome' = done.out
           /\ fs' = done.fs
           /\ Issued(func)

\* Client.catalog_download(resource_id, resource_version, target)
catalog_download ==
    \E target \in Targets, answer \in FileAnswers, disk_full \in BOOLEAN :
        LET func == CatalogClient_download(client.catalog_client, 1, 1, answer)
            args == <<Self, PyInt(1), PyInt(1), PyStr(target)>>
            done == file_response("target", CatalogClient_download_args,
                                  fs, func.out, args, disk_full)
        IN /\ Constructed
           /\ MayFail(disk_full, answer)
           /\ call' = [op |-> "catalog_download", target |-> target,
                       answer |-> answer, disk_full |-> disk_full]
           /\ outcome' = done.out
           /\ fs' = done.fs
           /\ Issued(func)

\* Client.process_file_download(process_id, process_version, file_id, target)
process_file_download ==
    \E target \in Targets, answer \in FileAnswers, disk_full \in BOOLEAN :
        LET func == ProcessClient_download(client.process_client, 1, 1, 1, answer)
            args == <<Self, PyInt(1), PyInt(1), PyInt(1), PyStr(target)>>
            done == file_response("target", ProcessClient_download_args,
                                  fs, func.out, args, disk_full)
        IN /\ Constructed
           /\ MayFail(disk_full, answer)
           /\ call' = [op |-> "process_file_download", target |-> target,
                       answer |-> answer, disk_full |-> disk_full]
           /\ outcome' = done.out
           /\ fs' = done.fs
           /\ Issued(func)

\* OperationClient._get_input(value)
get_input ==
    \E value \in InputValues :
        /\ call' = [op |-> "_get_input", value |-> value]
        /\ outcome' = _get_input(value)
        /\ Issued([sent |-> <<>>])
        /\ UNCHANGED fs

\* Client(api_key, base_url, requires_ssl)
construct ==
    \E api_key \in ApiKeys, base_url \in BaseUrls, requires_ssl \in RequiresSsl :
        LET made == Client_init(api_key, base_url, requires_ssl) IN
        /\ call' = [op |-> "Client", api_key |-> api_key, base_url |-> base_url,
                    requires_ssl |-> requires_ssl]
        /\ outcome' = made.out
        /\ client' = made.self
        /\ warned' = made.warned
        /\ sent' = <<>>
        /\ requests' = 0
        /\ UNCHANGED fs

(***************************************************************************)
(* The methods of Client, called on a constructed client.  The server      *)
(* answers each in one of a few ways.                                      *)
(***************************************************************************)
\* a connection error, a success and a failure
FewJsonAnswers ==
    {PyRaise("ConnectionError"),
     Return(Response(OK, JsonBytes(Envelope(PyBool(TRUE), PyStr("text"), Missing, Missing)))),
     Return(Response(500, JsonBytes(Envelope(PyBool(FALSE), Missing,
                                             PyStr("error text"), Missing))))}

FewFileAnswers ==
    {PyRaise("ConnectionError")}
        \cup {Return(Response(OK, b)) : b \in Bodies}
        \cup {Return(Response(404, JsonBytes(Envelope(PyBool(FALSE), Missing,
                                                      PyStr("error text"), Missing))))}

\* a file path, a catalog resource, an output file of a workflow, a tuple
\* that is too short and a list
FewInputs ==
    {PyStr("data/pois.csv"), PyTuple(<<PyInt(1), PyInt(2)>>),
     PyTuple(<<PyInt(1), PyInt(2), PyInt(3)>>), PyTuple(<<PyInt(1)>>)}

\* no keyword, a keyword that is a parameter, one that is not and one that
\* names a parameter given by position
FewKwargs(given) ==
    {NoKwargs, [delimiter |-> PyStr(",")], [unknown |-> PyInt(1)],
     [name \in {given} |-> PyStr("GPX")]}

\* remote paths of an upload
RemoteTargets == {"pois.csv", "data/pois.csv", "/data/pois.csv", "//data/pois.csv"}

\* line 116: target[1::] if target.startswith('/') else target
relative_target(target) ==
    IF startswith(target, "/") THEN From(target, 2) ELSE target

\* line 118: Client.file_upload returns nothing
no_result(returned) ==
    IF returned.kind = "raise" THEN returned ELSE Return(PyNone)

\* a method that answers with JSON was called: func is the outcome and the
\* requests of the function json_response wraps
Invoked(op, args, answer, func) ==
    /\ Constructed
    /\ call' = [op |-> op, args |-> args, answer |-> Answered(func, answer)]
    /\ outcome' = json_response(func.out)
    /\ Issued(func)
    /\ UNCHANGED fs

\* a download was called: func is the outcome and the requests of the
\* function file_response wraps, done what file_response makes of it
Downloaded(op, args, answer, func, done) ==
    /\ Constructed
    /\ call' = [op |-> op, args |-> args, answer |-> Answered(func, answer)]
    /\ outcome' = done.out
    /\ fs' = done.fs
    /\ Issued(func)

\* Client.file_browse()
call_file_browse ==
    \E answer \in FewJsonAnswers :
        \E func \in {FileSystemClient_browse(client.file_client, answer)} :
            Invoked("file_browse", <<>>, answer, func)

\* Client.file_download(source, target, overwrite)
call_file_download ==
    \E target \in Targets, overwrite \in BOOLEAN, answer \in FewFileAnswers :
        \E func \in {FileSystemClient_download(client.file_client, fs, Source,
                       target, overwrite, answer)} :
            \E done \in {file_response("target", FileSystemClient_download_args,
                                        fs, func.out,
                                        <<Self, Source, PyStr(target), PyBool(overwrite)>>,
                                        FALSE)} :
                Downloaded("file_download",
                           <<Self, Source, PyStr(target), PyBool(overwrite)>>,
                           answer, func, done)

\* Client.file_upload(source, target, overwrite)
call_file_upload ==
    \E source \in Targets, target \in RemoteTargets, overwrite \in BOOLEAN,
       answer \in FewJsonAnswers :
        \E func \in {FileSystemClient_upload(client.file_client, fs, source,
                                             relative_target(target), overwrite,
                                             answer)} :
            /\ Constructed
            /\ call' = [op |-> "file_upload",
                        args |-> <<PyStr(source), PyStr(target), PyBool(overwrite)>>,
                        answer |-> Answered(func, answer)]
            /\ outcome' = no_result(json_response(func.out))
            /\ Issued(func)
            /\ UNCHANGED fs

\* Client.catalog_query(term)
call_catalog_query ==
    \E term \in {PyNone, PyStr("poi")}, answer \in FewJsonAnswers :
        \E func \in {CatalogClient_query(client.catalog_client, term,
                       PyInt(0), PyInt(10), answer)} :
            Invoked("catalog_query", <<term>>, answer, func)

\* Client.catalog_download(resource_id, resource_version, target)
call_catalog_download ==
    \E id \in Ids, target \in Targets, answer \in FewFileAnswers :
        \E func \in {CatalogClient_download(client.catalog_client, id, 1,
                       answer)} :
            \E done \in {file_response("target", CatalogClient_download_args,
                                        fs, func.out,
                                        <<Self, PyInt(id), PyInt(1), PyStr(target)>>,
                                        FALSE)} :
                Downloaded("catalog_download",
                           <<Self, PyInt(id), PyInt(1), PyStr(target)>>,
                           answer, func, done)

\* Client.process_query(term)
call_process_query ==
    \E term \in {PyNone, PyStr("poi")}, answer \in FewJsonAnswers :
        \E func \in {ProcessClient_query(client.process_client, term,
                       PyInt(0), PyInt(10), answer)} :
            Invoked("process_query", <<term>>, answer, func)

\* Client.process_start(process_id, process_version)
call_process_start ==
    \E id \in Ids, answer \in FewJsonAnswers :
        \E func \in {ProcessClient_start(client.process_client, id, 1, answer)} :
            Invoked("process_start", <<PyInt(id), PyInt(1)>>, answer, func)

\* Client.process_stop(process_id, process_version)
call_process_stop ==
    \E id \in Ids, answer \in FewJsonAnswers :
        \E func \in {ProcessClient_stop(client.process_client, id, 1, answer)} :
            Invoked("process_stop", <<PyInt(id), PyInt(1)>>, answer, func)

\* Client.process_status(process_id, process_version)
call_process_status ==
    \E id \in Ids, answer \in FewJsonAnswers :
        \E func \in {ProcessClient_status(client.process_client, id, 1,
                       answer)} :
            Invoked("process_status", <<PyInt(id), PyInt(1)>>, answer, func)

\* Client.process_file_download(process_id, process_version, file_id, target)
call_process_file_download ==
    \E id \in Ids, target \in Targets, answer \in FewFileAnswers :
        \E func \in {ProcessClient_download(client.process_client, id, 1, 1,
                       answer)} :
            \E done \in {file_response("target", ProcessClient_download_args,
                                        fs, func.out,
                                        <<Self, PyInt(id), PyInt(1), PyInt(1), PyStr(target)>>,
                                        FALSE)} :
                Downloaded("process_file_download",
                           <<Self, PyInt(id), PyInt(1), PyInt(1), PyStr(target)>>,
                           answer, func, done)

\* Client.profiles()
call_profiles ==
    \E answer \in FewJsonAnswers :
        \E func \in {OperationClient_profiles(client.operation_client, answer)} :
            Invoked("profiles", <<>>, answer, func)

\* Client.transform_csv(path, **kwargs)
call_transform_csv ==
    \E kwargs \in FewKwargs("inputFormat"), answer \in FewJsonAnswers :
        \E func \in {OperationClient_transform_csv(client.operation_client,
                       Source, kwargs, answer)} :
            Invoked("transform_csv", <<Source, kwargs>>, answer, func)

\* Client.transform_shapefile(path, **kwargs)
call_transform_shapefile ==
    \E kwargs \in FewKwargs("inputFormat"), answer \in FewJsonAnswers :
        \E func \in {OperationClient_transform_shapefile(client.operation_client,
                       Source, kwargs, answer)} :
            Invoked("transform_shapefile", <<Source, kwargs>>, answer, func)

\* Client.interlink(profile, left, right)
call_interlink ==
    \E left \in FewInputs, right \in FewInputs, answer \in FewJsonAnswers :
        \E func \in {OperationClient_interlink(client.operation_client,
                       PyStr("profile-1"), left, right, answer)} :
            Invoked("interlink", <<PyStr("profile-1"), left, right>>, answer, func)

\* Client.fuse(profile, left, right, links)
call_fuse ==
    \E left \in FewInputs, right \in FewInputs, links \in FewInputs,
       answer \in FewJsonAnswers :
        \E func \in {OperationClient_fuse(client.operation_client, PyStr("profile-1"),
                       left, right, links, answer)} :
            Invoked("fuse", <<PyStr("profile-1"), left, right, links>>, answer, func)

\* Client.enrich(profile, source)
call_enrich ==
    \E source \in FewInputs, answer \in FewJsonAnswers :
        \E func \in {OperationClient_enrich(client.operation_client, PyStr("profile-1"),
                       source, answer)} :
            Invoked("enrich", <<PyStr("profile-1"), source>>, answer, func)

\* Client.export_csv(self, profile, source, **kwargs)
Client_export_csv(self, profile, source, kwargs, answer) ==
    OperationClient_export_csv(self.operation_client, profile, source, kwargs, answer)

\* Client.export_shapefile(self, source, profile, **kwargs): the parameters
\* are declared source first, and forwarded as (profile, source)
Client_export_shapefile(self, source, profile, kwargs, answer) ==
    OperationClient_export_shapefile(self.operation_client, profile, source,
                                     kwargs, answer)

\* the two leading arguments of an export, given by position: a profile and
\* a dataset, in either order
LeadingArguments ==
    {<<PyStr("profile-1"), source>> : source \in FewInputs}
        \cup {<<source, PyStr("profile-1")>> : source \in FewInputs}

\* Client.export_csv called with two positional arguments and keywords
call_export_csv ==
    \E leading \in LeadingArguments, kwargs \in FewKwargs("outputFormat"),
       answer \in FewJsonAnswers :
        \E func \in {Client_export_csv(client, leading[1], leading[2],
                                       kwargs, answer)} :
            Invoked("export_csv", <<leading[1], leading[2], kwargs>>, answer, func)

\* Client.export_shapefile called with two positional arguments and keywords
call_export_shapefile ==
    \E leading \in LeadingArguments, kwargs \in FewKwargs("outputFormat"),
       answer \in FewJsonAnswers :
        \E func \in {Client_export_shapefile(client, leading[1], leading[2],
                                             kwargs, answer)} :
            Invoked("export_shapefile", <<leading[1], leading[2], kwargs>>,
                    answer, func)

\* the endpoints that answer with JSON, and the input resolver
NextJson == browse \/ get_input

SpecJson == Init /\ [][NextJson]_vars

\* the downloads
NextFile == download \/ catalog_download \/ process_file_download

SpecFile == Init /\ [][NextFile]_vars

\* the construction of clients
SpecConstruct == Init /\ [][construct]_vars

\* a client of the default base URL, one of a base URL with a path and one
\* of an insecure base URL
SomeClients ==
    {DefaultClient,
     Client_init(PyStr("key-2"), PyStr("https://host/prefix"), PyBool(TRUE)).self,
     Client_init(PyStr("key-2"), PyStr("http://example.com"), PyBool(FALSE)).self}

\* the program holds one of the clients and calls its methods
InitClient ==
    /\ fs \in {FileSystem(Absent), FileSystem(File(OldContent))}
    /\ call = [op |-> "none"]
    /\ outcome = Return(PyNone)
    /\ requests = 0
    /\ client \in SomeClients
    /\ sent = <<>>
    /\ warned = <<>>

NextClient ==
    \/ call_file_browse
    \/ call_file_download
    \/ call_file_upload
    \/ call_catalog_query
    \/ call_catalog_download
    \/ call_process_query
    \/ call_process_start
    \/ call_process_stop
    \/ call_process_status
    \/ call_process_file_download
    \/ call_profiles
    \/ call_transform_csv
    \/ call_transform_shapefile
    \/ call_interlink
    \/ call_fuse
    \/ call_enrich
    \/ call_export_csv
    \/ call_export_shapefile

SpecClient == InitClient /\ [][NextClient]_vars

(***************************************************************************)
(* Properties.  The predicates below describe the last invocation.         *)
(***************************************************************************)
JsonCall == call.op = "browse"

FileCall == call.op \in {"download", "catalog_download", "process_file_download"}

\* the wrapped function returned a response
Responded == call.answer.kind = "return"

StatusCode == call.answer.value.status_code

Content == call.answer.value.content

\* the body is a JSON object
IsEnvelope == Responded /\ Content.t = "json" /\ Content.doc.t = "dict"

Fields == Content.doc.d

Carries(key) == IsEnvelope /\ key \in DOMAIN Fields

SuccessIs(b) == Carries("success") /\ Fields.success = PyBool(b)

\* status not OK, or success false in the envelope
Failing == Responded /\ (StatusCode # OK \/ SuccessIs(FALSE))

\* the 'errors' array is present, populated, and its first entry is well formed
ErrorsPopulated ==
    /\ Carries("errors")
    /\ Fields.errors.t = "list"
    /\ Len(Fields.errors.items) > 0
    /\ Fields.errors.items[1].t = "dict"
    /\ "description" \in DOMAIN Fields.errors.items[1].d

FirstDescription == Fields.errors.items[1].d.description

Raised(type) == outcome.kind = "raise" /\ outcome.exc = type

\* C1: a JSON endpoint answered with status OK and success true returns the
\* value of 'result' when the envelope carries it and None when it does not;
\* it raises nothing
C1_ResultUnwrapped ==
    (JsonCall /\ Responded /\ StatusCode = OK /\ SuccessIs(TRUE)) =>
        outcome = IF Carries("result") THEN Return(Fields.result) ELSE Return(PyNone)

C1_Witness ==
    /\ JsonCall /\ Responded /\ StatusCode = OK /\ SuccessIs(TRUE)
    /\ Carries("result") /\ Carries("error")
    /\ outcome = Return(PyDict([id |-> PyInt(1)]))

\* C2: a JSON endpoint answered with a status that is not OK, or with success
\* false, raises SlipoException, also when success is true beside a failing
\* status and when the envelope carries a result
C2_FailureRaises ==
    (JsonCall /\ Failing) => Raised("SlipoException")

C2_Witness ==
    /\ JsonCall /\ Responded /\ StatusCode # OK /\ SuccessIs(TRUE)
    /\ Carries("result")
    /\ Raised("SlipoException")

\* C3: for a failing envelope the message of the SlipoException is
\* errors[0].description when 'errors' is populated, with or without 'error',
\* and 'error' when 'errors' is absent and 'error' present
C3_ErrorMessage ==
    (JsonCall /\ Failing /\ IsEnvelope) =>
        /\ ErrorsPopulated => outcome = SlipoException(FirstDescription)
        /\ (~Carries("errors") /\ Carries("error")) =>
               outcome = SlipoException(Fields.error)

C3_Witness ==
    /\ JsonCall /\ Failing /\ ErrorsPopulated /\ Carries("error")
    /\ Len(Fields.errors.items) = 2
    /\ outcome = SlipoException(PyStr("description 1"))

\* C4: every invocation of a JSON endpoint ends in a normal return or in a
\* SlipoException, whatever the transport and the response do
C4_OnlySlipoException ==
    JsonCall => (outcome.kind = "return" \/ Raised("SlipoException"))

C4_Witness ==
    /\ JsonCall /\ Failing /\ Carries("errors")
    /\ Fields.errors = PyList(<<>>)
    /\ outcome = SlipoException(ExcValue("IndexError"))

\* C5 as stated: with status OK and success true, a 'result' that is absent,
\* null or of an unexpected shape makes the call return None
C5_MalformedResultIsNone ==
    (/\ JsonCall /\ Responded /\ StatusCode = OK /\ SuccessIs(TRUE)
     /\ (Carries("result") => Fields.result.t # "dict")) =>
        outcome = Return(PyNone)

\* C5 amended: with status OK and success true the call never raises,
\* whatever 'error' and 'errors' hold; it returns None when 'result' is
\* absent or null, and a 'result' of any other shape as it is
C5_ResultReturnedAsIs ==
    (JsonCall /\ Responded /\ StatusCode = OK /\ SuccessIs(TRUE)) =>
        /\ outcome.kind = "return"
        /\ (~Carries("result") \/ Fields.result = PyNone) <=> outcome.value = PyNone
        /\ Carries("result") => outcome.value = Fields.result

C5_Witness ==
    /\ JsonCall /\ Responded /\ StatusCode = OK /\ SuccessIs(TRUE)
    /\ ~Carries("result") /\ Carries("errors") /\ Fields.errors = PyNone
    /\ outcome = Return(PyNone)

\* the wrapped download raised, or its response has a status that is not OK
NotOK == call.answer.kind \in {"none", "raise"} \/ StatusCode # OK

\* C6: a download writes to the local file system only when the status is
\* OK: when the wrapped call raises or the status is not OK no path changes,
\* also with overwrite set; when the status is OK and the write succeeds the
\* destination holds the raw body and no other path changes
C6_WriteOnlyOnOK ==
    [][FileCall' =>
        /\ NotOK' => fs' = fs
        /\ (~NotOK' /\ outcome'.kind = "return") =>
               fs' = [fs EXCEPT ![call'.target] = File(Content')]]_vars

C6_Witness ==
    /\ call.op = "download" /\ call.overwrite /\ call.target = "out.bin"
    /\ Responded /\ StatusCode # OK
    /\ Raised("SlipoException")
    /\ fs["out.bin"] = File(OldContent)

\* C7: for a response whose status is not OK a download raises the
\* SlipoException a JSON endpoint raises for the same response:
\* errors[0].description when 'errors' is present, otherwise 'error'
C7_SameMessage ==
    (FileCall /\ Responded /\ StatusCode # OK) =>
        /\ Raised("SlipoException")
        /\ outcome = json_response(call.answer)
        /\ ErrorsPopulated => outcome.value = FirstDescription
        /\ (~Carries("errors") /\ Carries("error")) => outcome.value = Fields.error

C7_Witness ==
    /\ FileCall /\ Responded /\ StatusCode # OK
    /\ ErrorsPopulated /\ Carries("error")
    /\ Len(Fields.errors.items) = 2
    /\ outcome = SlipoException(PyStr("description 1"))

\* C8: every invocation of a download ends in a return of None or in a
\* SlipoException: a transport failure, a failing status with a body that is
\* no error envelope and a failure to open or write the destination are all
\* reported as SlipoException
C8_DownloadOnlySlipoException ==
    FileCall => (outcome = Return(PyNone) \/ Raised("SlipoException"))

C8_Witness ==
    /\ FileCall /\ call.target = "readonly.bin"
    /\ Responded /\ StatusCode = OK
    /\ outcome = SlipoException(ExcValue("PermissionError"))

\* the value is a tuple of n integers
IntTuple(value, n) ==
    /\ value.t = "tuple"
    /\ Len(value.items) = n
    /\ \A i \in 1..n : value.items[i].t = "int"

\* C9: the input resolver maps every string, the empty one included, to the
\* descriptor with type FILESYSTEM and the string as path, and no other field
C9_StringIsFileSystem ==
    (call.op = "_get_input" /\ call.value.t = "str") =>
        outcome = Return(PyDict([type |-> PyStr("FILESYSTEM"), path |-> call.value]))

C9_Witness ==
    /\ call.op = "_get_input" /\ call.value = PyStr("")
    /\ outcome.kind = "return"
    /\ outcome.value.d.path = PyStr("")

\* C10: the input resolver maps a pair of integers (a, b) to the descriptor
\* with type CATALOG, id a and version b, and a triple (a, b, c) to the one
\* with type OUTPUT, processId a, processVersion b and fileId c, and no
\* other field
C10_TupleIsCatalogOrOutput ==
    call.op = "_get_input" =>
        /\ IntTuple(call.value, 2) =>
               outcome = Return(PyDict([type |-> PyStr("CATALOG"),
                                        id |-> call.value.items[1],
                                        version |-> call.value.items[2]]))
        /\ IntTuple(call.value, 3) =>
               outcome = Return(PyDict([type |-> PyStr("OUTPUT"),
                                        processId |-> call.value.items[1],
                                        processVersion |-> call.value.items[2],
                                        fileId |-> call.value.items[3]]))

C10_Witness ==
    /\ call.op = "_get_input"
    /\ call.value = PyTuple(<<PyInt(1), PyInt(2), PyInt(2)>>)
    /\ outcome.kind = "return"
    /\ outcome.value.d.processId = PyInt(1)
    /\ outcome.value.d.fileId = PyInt(2)

\* C11: the input resolver raises SlipoException, and returns no descriptor,
\* for every tuple whose length is neither 2 nor 3 and for every value that
\* is neither a string nor a tuple
C11_OtherShapesRaise ==
    (/\ call.op = "_get_input"
     /\ \/ call.value.t = "tuple" /\ Len(call.value.items) \notin {2, 3}
        \/ call.value.t \notin {"str", "tuple"}) =>
        Raised("SlipoException")

C11_Witness ==
    /\ call.op = "_get_input"
    /\ call.value.t = "tuple" /\ Len(call.value.items) = 4
    /\ outcome = SlipoException(PyStr(
           "Expected a tuple with 2 or 3 members. Instead received 4"))

\* C12: the input resolver raises SlipoException for a tuple of length 2 or
\* 3 that holds a member which is not an integer
C12_NonIntegerMemberRaises ==
    (/\ call.op = "_get_input"
     /\ call.value.t = "tuple" /\ Len(call.value.items) \in {2, 3}
     /\ \E i \in 1..Len(call.value.items) : call.value.items[i].t # "int") =>
        Raised("SlipoException")


\* the last invocation constructed a client
Construction == call.op = "Client"

\* the base URL the construction was given is a URL of the scheme http or ftp
InsecureScheme ==
    /\ call.base_url.t = "str"
    /\ urlparse(call.base_url.s, "").scheme \in {"http", "ftp"}

\* the base URL in effect: the one given or, for None and '', the default
EffectiveUrl == IF Truthy(call.base_url) THEN call.base_url.s ELSE BASE_URL

\* the sub-clients the client holds
SubClients ==
    DOMAIN client \cap {"file_client", "catalog_client", "process_client",
                        "operation_client"}

C15_OnlyHttpsScheme ==
    (Construction /\ call.requires_ssl = PyBool(TRUE) /\ outcome.kind = "return") =>
        /\ urlparse(EffectiveUrl, "").scheme = "https"
        /\ urlparse(EffectiveUrl, "").netloc # ""

\* C16: FileSystemClient.download with overwrite false and a target that is
\* an existing file raises SlipoException, issues no request and leaves
\* every path, the existing file included, as it was.
C16_ExistingFileKept ==
    [][(call'.op = "download" /\ ~call'.overwrite /\ isfile(fs, call'.target)) =>
        /\ outcome' = SlipoException(PyStr("File " \o call'.target \o " already exists"))
        /\ sent' = <<>> /\ requests' = 0
        /\ fs' = fs]_vars

C16_Witness ==
    /\ call.op = "download" /\ ~call.overwrite /\ call.target = "out.bin"
    /\ outcome = SlipoException(PyStr("File out.bin already exists"))
    /\ sent = <<>>
    /\ fs["out.bin"] = File(OldContent)

\* C17: FileSystemClient.download with a target that is an existing
\* directory raises SlipoException whether overwrite is true or false,
\* issues no request and writes nothing.
C17_DirectoryRejected ==
    [][(call'.op = "download" /\ isdir(fs, call'.target)) =>
        /\ outcome' = SlipoException(PyStr("Path " \o call'.target \o " is a directory"))
        /\ sent' = <<>> /\ requests' = 0
        /\ fs' = fs]_vars

C17_Witness ==
    /\ call.op = "download" /\ call.overwrite /\ call.target = "outdir"
    /\ outcome = SlipoException(PyStr("Path outdir is a directory"))
    /\ sent = <<>>
    /\ fs["outdir"] = Directory

\* the last invocation called a method of the client
MethodCall == call.op \notin {"none", "Client"}

SubClientNames == {"file_client", "catalog_client", "process_client", "operation_client"}

\* the header maps a sub-client holds
HeaderMaps(sub) == {sub[name] : name \in DOMAIN sub \cap {"headers", "auth_headers", "content_headers"}}

\* the four sub-clients of c hold the base URL of c and one API key, and
\* every header map carries that key
SameConfiguration(c) ==
    \A name \in SubClientNames :
        /\ c[name].base_url = c.base_url
        /\ c[name].api_key = c.file_client.api_key
        /\ \A headers \in HeaderMaps(c[name]) :
               /\ "X-API-Key" \in DOMAIN headers
               /\ headers["X-API-Key"] = c.file_client.api_key

\* C18: no method call, whether it returns or raises, changes the client:
\* its base URL and the base URL, API key and header maps of its four
\* sub-clients stay what construction made them, and the four sub-clients
\* hold the same base URL and API key.
C18_ConfigurationReadOnly ==
    [][MethodCall' => (client' = client /\ SameConfiguration(client'))]_vars

C18_Witness ==
    /\ call.op = "process_start"
    /\ Raised("SlipoException")
    /\ client.base_url = PyStr("http://example.com/")
    /\ client.operation_client.api_key = PyStr("key-2")

\* the value is neither a string nor a tuple of two or three members
InvalidInput(value) ==
    ~(value.t = "str" \/ (value.t = "tuple" /\ Len(value.items) \in {2, 3}))

\* a check made before the request fails for the call c in the file system
\* files: the destination of a file download exists, the source of an
\* upload cannot be read, the value a method resolves as an input is invalid
\* (the first argument of export_shapefile: its parameter source), or a
\* keyword is no parameter
LocalCheckFails(files, c) ==
    CASE c.op = "file_download" ->
           \/ isfile(files, c.args[3].s) /\ ~c.args[4].b
           \/ isdir(files, c.args[3].s)
      [] c.op = "file_upload" -> ~isfile(files, c.args[1].s)
      [] c.op = "interlink" -> InvalidInput(c.args[2]) \/ InvalidInput(c.args[3])
      [] c.op = "fuse" ->
           InvalidInput(c.args[2]) \/ InvalidInput(c.args[3]) \/ InvalidInput(c.args[4])
      [] c.op = "enrich" -> InvalidInput(c.args[2])
      [] c.op = "export_csv" ->
           InvalidInput(c.args[2]) \/ ~(DOMAIN c.args[3] \subseteq DOMAIN export_defaults)
      [] c.op = "export_shapefile" ->
           InvalidInput(c.args[1]) \/ ~(DOMAIN c.args[3] \subseteq DOMAIN export_defaults)
      [] c.op \in {"transform_csv", "transform_shapefile"} ->
           ~(DOMAIN c.args[2] \subseteq DOMAIN transform_defaults)
      [] OTHER -> FALSE

\* C19: every method call issues at most one HTTP request: none when a
\* local check fails, exactly one otherwise, also when that request fails.
C19_AtMostOneRequest ==
    [][MethodCall' =>
        /\ Len(sent') <= 1 /\ requests' = Len(sent')
        /\ LocalCheckFails(fs, call') <=> sent' = <<>>]_vars

C19_Witness ==
    /\ call.op = "process_start"
    /\ call.answer = PyRaise("ConnectionError")
    /\ Raised("SlipoException")
    /\ Len(sent) = 1 /\ requests = 1

\* C20: every HTTP request a method issues carries the header 'X-API-Key'
\* with the API key the client was constructed with.
C20_RequestsCarryApiKey ==
    MethodCall =>
        \A i \in 1..Len(sent) :
            /\ "X-API-Key" \in DOMAIN sent[i].headers
            /\ sent[i].headers["X-API-Key"] = client.file_client.api_key

C20_Witness ==
    /\ call.op = "catalog_download"
    /\ Len(sent) = 1
    /\ sent[1].method = "GET"
    /\ sent[1].headers["X-API-Key"] = PyStr("key-2")
    /\ client.catalog_client.api_key = PyStr("key-2")

\* the body of the request sent, as the JSON document it encodes
Body == sent[1].data.doc.d

\* the 'configuration' member of the body of the request sent
Configuration == Body.configuration.d

\* an export was called and its request sent
Exported == call.op \in {"export_csv", "export_shapefile"} /\ Len(sent) = 1

\* C21: an export called without the keywords delimiter and quote sends the
\* defaults its documentation states: delimiter ';' and quote '"'.
C21_DocumentedExportDefaults ==
    (Exported /\ DOMAIN call.args[3] \cap {"delimiter", "quote"} = {}) =>
        /\ Configuration.delimiter = PyStr(";")
        /\ Configuration.quote = PyStr("\"")

\* the request Client.export_csv sends for the arguments of the call made
CsvRequest ==
    Client_export_csv(client, call.args[1], call.args[2], call.args[3],
                      call.answer).sent

\* C22: export_csv(p, s) and export_shapefile(p, s), called by position, send
\* bodies with the same 'input' and the same configuration but for
\* outputFormat: p is the profile and s the dataset in both.
C22_SameLeadingArguments ==
    call.op = "export_shapefile" =>
        /\ Len(CsvRequest) = Len(sent)
        /\ Len(sent) = 1 =>
            /\ CsvRequest[1].data.doc.d.input = Body.input
            /\ CsvRequest[1].data.doc.d.configuration.d
                   = [Configuration EXCEPT !.outputFormat = PyStr("CSV")]

\* C23: the URL of every request is the base URL of the client followed by
\* the path of the endpoint, 'api/v1/...': every endpoint resolves under the
\* base URL, a path prefix of the base URL included, whether its template is
\* written with a leading '/' or without.
C23_UrlUnderBase ==
    (MethodCall /\ Len(sent) = 1) =>
        startswith(sent[1].url, client.base_url.s \o "api/" \o API_VERSION \o "/")

\* the polymorphic arguments of the call made, each with the member of the
\* body that carries it: export_shapefile declares source first
Polymorphic ==
    CASE call.op = "interlink" -> {<<"left", call.args[2]>>, <<"right", call.args[3]>>}
      [] call.op = "fuse" ->
           {<<"left", call.args[2]>>, <<"right", call.args[3]>>,
            <<"links", call.args[4]>>}
      [] call.op \in {"enrich", "export_csv"} -> {<<"input", call.args[2]>>}
      [] call.op = "export_shapefile" -> {<<"input", call.args[1]>>}
      [] OTHER -> {}

\* C24: interlink, fuse, enrich and the exports resolve each polymorphic
\* argument before the request: the body carries the descriptor of each
\* under 'left', 'right', 'links' or 'input'; when one of them is invalid the
\* call raises SlipoException and issues no request.
C24_InputsResolved ==
    IF \E input \in Polymorphic : InvalidInput(input[2])
    THEN Raised("SlipoException") /\ sent = <<>>
    ELSE /\ (Polymorphic # {} /\ ~LocalCheckFails(fs, call)) => Len(sent) = 1
         /\ Len(sent) = 1 =>
                \A input \in Polymorphic :
                    Body[input[1]] = _get_input(input[2]).value

C24_Witness ==
    /\ call.op = "fuse"
    /\ call.args[2].t = "str" /\ call.args[3].t = "tuple" /\ call.args[4].t = "tuple"
    /\ Len(sent) = 1
    /\ Body.left.d.type = PyStr(FILESYSTEM)
    /\ Body.right.d.type = PyStr(CATALOG)
    /\ Body.links.d.type = PyStr(OUTPUT)

\* the keywords of the call made are all parameters with a default in
\* defaults; the format of the method is none of them
Recognized(kwargs, defaults) == DOMAIN kwargs \subseteq DOMAIN defaults

\* the call made raised SlipoException before any request
RaisedUnsent == Raised("SlipoException") /\ sent = <<>>

\* C25: the method fixes the data format of a transform or export request:
\* transform_csv sends inputFormat 'CSV', transform_shapefile 'SHAPEFILE',
\* export_csv outputFormat 'CSV' and export_shapefile 'SHAPEFILE'; a keyword
\* inputFormat or outputFormat, or one that is no parameter, raises
\* SlipoException and no request is issued.
C25_FormatFixed ==
    /\ call.op \in {"transform_csv", "transform_shapefile"} =>
           /\ Len(sent) = 1 =>
                  Configuration.inputFormat
                      = PyStr(IF call.op = "transform_csv" THEN "CSV" ELSE "SHAPEFILE")
           /\ ("inputFormat" \in DOMAIN call.args[2]
                   \/ ~Recognized(call.args[2], transform_defaults)) => RaisedUnsent
    /\ call.op \in {"export_csv", "export_shapefile"} =>
           /\ Len(sent) = 1 =>
                  Configuration.outputFormat
                      = PyStr(IF call.op = "export_csv" THEN "CSV" ELSE "SHAPEFILE")
           /\ ("outputFormat" \in DOMAIN call.args[3]
                   \/ ~Recognized(call.args[3], export_defaults)) => RaisedUnsent

C25_Witness ==
    /\ call.op = "transform_csv"
    /\ call.args[2] = [inputFormat |-> PyStr("GPX")]
    /\ Raised("SlipoException")
    /\ sent = <<>> /\ requests = 0

\* C26: a client constructed with base_url None or '' holds the default
\* 'https://app.dev.slipo.eu/', without error or warning; a client constructed
\* with another URL holds that URL, with one '/' appended if and only if it
\* did not end with '/'.  The URL held always ends with '/', and normalizing
\* it again leaves it unchanged.
C26_BaseUrlNormalized ==
    Construction =>
        /\ ~Truthy(call.base_url) =>
               /\ outcome = Return(PyNone)
               /\ Constructed
               /\ client.base_url = PyStr("https://app.dev.slipo.eu/")
               /\ warned = <<>>
        /\ (Truthy(call.base_url) /\ Constructed) =>
               client.base_url.s = IF endswith(call.base_url.s, "/")
                                   THEN call.base_url.s
                                   ELSE call.base_url.s \o "/"
        /\ Constructed =>
               /\ endswith(client.base_url.s, "/")
               /\ _check_base_url(client.base_url, call.requires_ssl).out
                      = Return(client.base_url)

C26_Witness ==
    /\ Construction
    /\ call.base_url = PyStr("https://host/prefix")
    /\ outcome = Return(PyNone)
    /\ client.base_url = PyStr("https://host/prefix/")
    /\ client.process_client.base_url = PyStr("https://host/prefix/")
    /\ warned = <<>>

\* the download c fails locally in the file system files once the response
\* is there: the destination is not among the positional arguments, cannot
\* be opened for writing, or the write fails
LocalFailure(files, c) ==
    \/ c.op = "download" /\ c.by_keyword
    \/ open_wb(files, c.target).out.kind = "raise"
    \/ c.disk_full

\* C27 as stated: for every response with status OK a download writes the
\* body to the destination and raises nothing, whatever the body contains.
C27_StatusOKWrites ==
    (FileCall /\ ~NotOK) =>
        /\ outcome = Return(PyNone)
        /\ fs[call.target] = File(Content)

\* C27, amended: the status alone decides. For a response with status OK the
\* body is never inspected: unless the destination cannot be located, opened
\* or written, which raises SlipoException, the body is written byte for
\* byte and None returned, also when it is an envelope with success false.
C27_StatusAloneDecides ==
    [][(FileCall' /\ ~NotOK') =>
        IF LocalFailure(fs, call')
        THEN outcome'.kind = "raise" /\ outcome'.exc = "SlipoException"
        ELSE /\ outcome' = Return(PyNone)
             /\ fs' = [fs EXCEPT ![call'.target] = File(Content')]]_vars

C27_Witness ==
    /\ call.op = "catalog_download" /\ call.target = "out.bin"
    /\ Responded /\ StatusCode = OK /\ SuccessIs(FALSE)
    /\ outcome = Return(PyNone)
    /\ fs["out.bin"] = File(Content)

\* C28: FileSystemClient.download(source, target=p), the target given by
\* keyword, ends as download(source, p) does: on a response with status OK,
\* and a destination that can be written, p holds the body and the call
\* returns None.
C28_KeywordTargetWritten ==
    (/\ call.op = "download" /\ call.by_keyword
     /\ ~NotOK /\ ~call.disk_full
     /\ call.target \notin NoParent \cup NoPermission) =>
        /\ outcome = Return(PyNone)
        /\ fs[call.target] = File(Content)

\* a download of the catalog or of a workflow file
UnguardedCall(c) == c.op \in {"catalog_download", "process_file_download"}

\* C29 as stated: catalog_download and process_file_download onto an
\* existing file, answered with status OK, replace the content of the file by
\* the body without any error.
C29_ExistingFileReplaced ==
    [][(UnguardedCall(call') /\ isfile(fs, call'.target) /\ ~NotOK') =>
        /\ outcome' = Return(PyNone)
        /\ fs'[call'.target] = File(Content')]_vars

\* C29, amended: catalog_download and process_file_download check nothing
\* about the destination: onto an existing file they issue their request,
\* and, answered with status OK, replace the content of a file that can be
\* opened and written by the body, returning None; only the download of the
\* file system refuses an existing file, when overwrite is not set.
C29_NoDestinationCheck ==
    [][/\ (UnguardedCall(call') /\ isfile(fs, call'.target)) =>
              /\ Len(sent') = 1
              /\ (~NotOK' /\ ~LocalFailure(fs, call')) =>
                     /\ outcome' = Return(PyNone)
                     /\ fs' = [fs EXCEPT ![call'.target] = File(Content')]
       /\ (call'.op = "download" /\ isfile(fs, call'.target) /\ ~call'.overwrite) =>
              /\ outcome'.kind = "raise"
              /\ sent' = <<>>
              /\ fs' = fs]_vars

C29_Witness ==
    /\ call.op = "process_file_download" /\ call.target = "out.bin"
    /\ Responded /\ StatusCode = OK /\ Content \in Bodies
    /\ Len(sent) = 1
    /\ outcome = Return(PyNone)
    /\ fs["out.bin"] = File(Content)

\* the metadata of the upload sent, as the JSON document it encodes
Metadata == sent[1].files.data.doc.d

\* C30: file_upload sends a relative remote target: 'path' and 'filename'
\* are the directory and the last component of a target that does not begin
\* with '/', also when the target given begins with more than one '/'.
C30_RelativeRemoteTarget ==
    (call.op = "file_upload" /\ Len(sent) = 1) =>
        /\ ~startswith(Metadata.path.s, "/")
        /\ ~startswith(Metadata.filename.s, "/")
====
